---- MODULE Spec2Model ----
(***************************************************************************)
(* Model of machine_i2s.c, the MicroPython (ESP32) binding of the I2S      *)
(* peripheral driver: the 2-entry port claim table, the argument           *)
(* validation of machine_i2s_init_helper, and the entry points make_new,   *)
(* init, readinto and deinit of an I2S object.                             *)
(***************************************************************************)
EXTENDS Integers, Sequences, FiniteSets, TLC

(***************************************************************************)
(* Constants of the source and of the headers it includes.                 *)
(***************************************************************************)
MACHINE_I2S_PORT_NOT_USED == 0
MACHINE_I2S_PORT_USED == 1

I2S_NUM_0 == 0
I2S_NUM_1 == 1
I2S_NUM_MAX == 2

I2S_MODE_MASTER == 1
I2S_MODE_RX == 8

I2S_BITS_PER_SAMPLE_8BIT == 8
I2S_BITS_PER_SAMPLE_16BIT == 16
I2S_BITS_PER_SAMPLE_24BIT == 24
I2S_BITS_PER_SAMPLE_32BIT == 32

I2S_CHANNEL_FMT_RIGHT_LEFT == 0
I2S_CHANNEL_FMT_ALL_RIGHT == 1
I2S_CHANNEL_FMT_ALL_LEFT == 2
I2S_CHANNEL_FMT_ONLY_RIGHT == 3
I2S_CHANNEL_FMT_ONLY_LEFT == 4

I2S_COMM_FORMAT_I2S == 1
I2S_COMM_FORMAT_I2S_MSB == 2
I2S_COMM_FORMAT_I2S_LSB == 4

ESP_OK == 0
ESP_FAIL == -1
ESP_ERR_NO_MEM == 257
ESP_ERR_INVALID_ARG == 258

\* the defaults of the optional keyword arguments (allowed_args)
DEFAULT_dmacount == 16
DEFAULT_dmalen == 64
DEFAULT_useapll == FALSE
DEFAULT_fixedmclk == 0

\* the ranges the helper checks the DMA arguments against
DMACOUNT_MIN == 2
DMACOUNT_MAX == 128
DMALEN_MIN == 8
DMALEN_MAX == 1024

(***************************************************************************)
(* Bounds of the model.                                                    *)
(***************************************************************************)
\* number of I2S objects the script creates at most
MaxObjs == 2
\* the same, in the specification that varies the arguments
MaxArgObjs == 1
\* number of arguments of a call that fail their check at most
MaxBad == 3
\* number of readinto calls that wait inside i2s_read at a time
MaxReads == 1

(***************************************************************************)
(* Integer conversions of the C code.                                      *)
(***************************************************************************)
\* (int16_t)x : the conversion of an mp_int_t to the 16 bit locals and fields
ToInt16(x) == ((x + 32768) % 65536) - 32768

\* I2S_MODE_MASTER | I2S_MODE_RX : the two flags have disjoint bits
MODE_MASTER_RX == I2S_MODE_MASTER + I2S_MODE_RX
\* I2S_COMM_FORMAT_I2S | I2S_COMM_FORMAT_I2S_MSB, ... | I2S_COMM_FORMAT_I2S_LSB
COMM_I2S_MSB == I2S_COMM_FORMAT_I2S + I2S_COMM_FORMAT_I2S_MSB
COMM_I2S_LSB == I2S_COMM_FORMAT_I2S + I2S_COMM_FORMAT_I2S_LSB

Ports == {I2S_NUM_0, I2S_NUM_1}

VARIABLES
    machine_i2s_port_state, \* the claim table, indexed by port
    installed,              \* per port: the driver is installed
    objs,                   \* the I2S objects returned to the script
    life,                   \* per object: its lifecycle state
    freed,                  \* per port: a deinit of a Configured object freed
                            \* it and no call on that port followed
    last,                   \* the entry point that ran last and what it did
    reading                 \* the readinto calls that wait inside i2s_read

vars ==
    <<machine_i2s_port_state, installed, objs, life, freed, last, reading>>

(***************************************************************************)
(* The claim table.                                                        *)
(***************************************************************************)
\* machine_i2s_acquire_port: the result and the table after the call
machine_i2s_acquire_port(ps, port) ==
    IF ps[port] = MACHINE_I2S_PORT_NOT_USED
    THEN [ok |-> TRUE, ps |-> [ps EXCEPT ![port] = MACHINE_I2S_PORT_USED]]
    ELSE [ok |-> FALSE, ps |-> ps]

\* mutant: the release leaves the entry as it is
release_NoOp(ps, port) == ps

\* mutant: the release flips the entry instead of clearing it
release_Toggle(ps, port) ==
    [ps EXCEPT ![port] = IF @ = MACHINE_I2S_PORT_USED
                         THEN MACHINE_I2S_PORT_NOT_USED
                         ELSE MACHINE_I2S_PORT_USED]

\* machine_i2s_release_port: the table after the call
machine_i2s_release_port(ps, port) ==
    [ps EXCEPT ![port] = MACHINE_I2S_PORT_NOT_USED]

(***************************************************************************)
(* Collaborators: the argument parser, the pin resolver and the I2S        *)
(* driver.  Their code is not part of machine_i2s.c; they are modelled by  *)
(* their contract.                                                         *)
(***************************************************************************)
OptionalArgs == {"dmacount", "dmalen", "useapll", "fixedmclk"}

\* allowed_args: the defaults of the arguments a call may omit
allowed_args ==
    [dmacount |-> DEFAULT_dmacount, dmalen |-> DEFAULT_dmalen,
     useapll |-> DEFAULT_useapll, fixedmclk |-> DEFAULT_fixedmclk]

\* mp_arg_parse_all: every argument, an omitted one with its default
mp_arg_parse_all(kw) ==
    [n \in DOMAIN kw \cup OptionalArgs |->
        IF n \in DOMAIN kw THEN kw[n] ELSE allowed_args[n]]

\* machine_pin_get_gpio accepts a pin object (here: its GPIO number)
GpioPins == 0 .. 39
IsPin(o) == o \in GpioPins

\* the status codes a driver call returns
DriverRets == {ESP_OK, ESP_FAIL, ESP_ERR_NO_MEM, ESP_ERR_INVALID_ARG}

\* the statuses i2s_driver_install and i2s_set_pin return in a run: every
\* status, or success and one failure of each call
AllRets == [install |-> DriverRets, set_pin |-> DriverRets]
FewRets == [install |-> {ESP_OK, ESP_ERR_NO_MEM},
            set_pin |-> {ESP_OK, ESP_FAIL}]

\* i2s_driver_install: the driver is installed when the call returns ESP_OK
i2s_driver_install(inst, port, ret) ==
    IF ret = ESP_OK THEN [inst EXCEPT ![port] = TRUE] ELSE inst

\* i2s_driver_uninstall: the driver is gone; on a port without driver
\* the call fails and changes nothing
i2s_driver_uninstall(inst, port) == [inst EXCEPT ![port] = FALSE]

(***************************************************************************)
(* machine_i2s_init_helper.                                                *)
(***************************************************************************)
NoError == "none"

\* mutant: the bits check before the mode check
ValidateArgs_BitsBeforeMode(args) ==
    LET i2s_id == args.id
        i2s_bits == args.bits
        i2s_channelformat == args.channelformat
        i2s_commformat == args.commformat
        i2s_dmacount == ToInt16(args.dmacount)
        i2s_dmalen == ToInt16(args.dmalen)
    IN  IF (i2s_id # I2S_NUM_0) /\ (i2s_id # I2S_NUM_1)
        THEN "I2S ID is not valid"
        ELSE IF /\ i2s_bits # I2S_BITS_PER_SAMPLE_8BIT
                /\ i2s_bits # I2S_BITS_PER_SAMPLE_16BIT
                /\ i2s_bits # I2S_BITS_PER_SAMPLE_24BIT
                /\ i2s_bits # I2S_BITS_PER_SAMPLE_32BIT
        THEN "Bits per sample is not valid"
        ELSE IF args.mode # MODE_MASTER_RX
        THEN "Only Master Rx Mode is supported"
        ELSE IF /\ i2s_channelformat # I2S_CHANNEL_FMT_RIGHT_LEFT
                /\ i2s_channelformat # I2S_CHANNEL_FMT_ALL_RIGHT
                /\ i2s_channelformat # I2S_CHANNEL_FMT_ALL_LEFT
                /\ i2s_channelformat # I2S_CHANNEL_FMT_ONLY_RIGHT
                /\ i2s_channelformat # I2S_CHANNEL_FMT_ONLY_LEFT
        THEN "Channel Format is not valid"
        ELSE IF /\ i2s_commformat # COMM_I2S_MSB
                /\ i2s_commformat # COMM_I2S_LSB
        THEN "Communication Format is not valid"
        ELSE IF (i2s_dmacount < DMACOUNT_MIN) \/ (i2s_dmacount > DMACOUNT_MAX)
        THEN "DMA Buffer Count is not valid.  Allowed range is [2, 128]"
        ELSE IF (i2s_dmalen < DMALEN_MIN) \/ (i2s_dmalen > DMALEN_MAX)
        THEN "DMA Buffer Length is not valid.  Allowed range is [8, 1024]"
        ELSE IF ~(IsPin(args.sck) /\ IsPin(args.ws) /\ IsPin(args.sdin))
        THEN "pin"
        ELSE NoError

\* mutant: the id check accepts I2S_NUM_MAX
ValidateArgs_IdUpToMax(args) ==
    LET i2s_id == args.id
        i2s_bits == args.bits
        i2s_channelformat == args.channelformat
        i2s_commformat == args.commformat
        i2s_dmacount == ToInt16(args.dmacount)
        i2s_dmalen == ToInt16(args.dmalen)
    IN  IF (i2s_id < I2S_NUM_0) \/ (i2s_id > I2S_NUM_MAX)
        THEN "I2S ID is not valid"
        ELSE IF args.mode # MODE_MASTER_RX
        THEN "Only Master Rx Mode is supported"
        ELSE IF /\ i2s_bits # I2S_BITS_PER_SAMPLE_8BIT
                /\ i2s_bits # I2S_BITS_PER_SAMPLE_16BIT
                /\ i2s_bits # I2S_BITS_PER_SAMPLE_24BIT
                /\ i2s_bits # I2S_BITS_PER_SAMPLE_32BIT
        THEN "Bits per sample is not valid"
        ELSE IF /\ i2s_channelformat # I2S_CHANNEL_FMT_RIGHT_LEFT
                /\ i2s_channelformat # I2S_CHANNEL_FMT_ALL_RIGHT
                /\ i2s_channelformat # I2S_CHANNEL_FMT_ALL_LEFT
                /\ i2s_channelformat # I2S_CHANNEL_FMT_ONLY_RIGHT
                /\ i2s_channelformat # I2S_CHANNEL_FMT_ONLY_LEFT
        THEN "Channel Format is not valid"
        ELSE IF /\ i2s_commformat # COMM_I2S_MSB
                /\ i2s_commformat # COMM_I2S_LSB
        THEN "Communication Format is not valid"
        ELSE IF (i2s_dmacount < DMACOUNT_MIN) \/ (i2s_dmacount > DMACOUNT_MAX)
        THEN "DMA Buffer Count is not valid.  Allowed range is [2, 128]"
        ELSE IF (i2s_dmalen < DMALEN_MIN) \/ (i2s_dmalen > DMALEN_MAX)
        THEN "DMA Buffer Length is not valid.  Allowed range is [8, 1024]"
        ELSE IF ~(IsPin(args.sck) /\ IsPin(args.ws) /\ IsPin(args.sdin))
        THEN "pin"
        ELSE NoError

\* the argument checks, in the order of the code: the message of the first
\* check that fails, or NoError
ValidateArgs(args) ==
    LET i2s_id == args.id
        i2s_bits == args.bits
        i2s_channelformat == args.channelformat
        i2s_commformat == args.commformat
        i2s_dmacount == ToInt16(args.dmacount)
        i2s_dmalen == ToInt16(args.dmalen)
    IN  IF (i2s_id # I2S_NUM_0) /\ (i2s_id # I2S_NUM_1)
        THEN "I2S ID is not valid"
        ELSE IF args.mode # MODE_MASTER_RX
        THEN "Only Master Rx Mode is supported"
        ELSE IF /\ i2s_bits # I2S_BITS_PER_SAMPLE_8BIT
                /\ i2s_bits # I2S_BITS_PER_SAMPLE_16BIT
                /\ i2s_bits # I2S_BITS_PER_SAMPLE_24BIT
                /\ i2s_bits # I2S_BITS_PER_SAMPLE_32BIT
        THEN "Bits per sample is not valid"
        ELSE IF /\ i2s_channelformat # I2S_CHANNEL_FMT_RIGHT_LEFT
                /\ i2s_channelformat # I2S_CHANNEL_FMT_ALL_RIGHT
                /\ i2s_channelformat # I2S_CHANNEL_FMT_ALL_LEFT
                /\ i2s_channelformat # I2S_CHANNEL_FMT_ONLY_RIGHT
                /\ i2s_channelformat # I2S_CHANNEL_FMT_ONLY_LEFT
        THEN "Channel Format is not valid"
        ELSE IF /\ i2s_commformat # COMM_I2S_MSB
                /\ i2s_commformat # COMM_I2S_LSB
        THEN "Communication Format is not valid"
        ELSE IF (i2s_dmacount < DMACOUNT_MIN) \/ (i2s_dmacount > DMACOUNT_MAX)
        THEN "DMA Buffer Count is not valid.  Allowed range is [2, 128]"
        ELSE IF (i2s_dmalen < DMALEN_MIN) \/ (i2s_dmalen > DMALEN_MAX)
        THEN "DMA Buffer Length is not valid.  Allowed range is [8, 1024]"
        ELSE IF ~(IsPin(args.sck) /\ IsPin(args.ws) /\ IsPin(args.sdin))
        THEN "pin"
        ELSE NoError

\* the class of the exception a failed argument check raises
ValidateExc(msg) == IF msg = "pin" THEN "PinError" ELSE "ValueError"

\* mutant: dmalen is assigned from the dmacount argument
StoreConfig_DmalenFromDmacount(self, args) ==
    [id |-> args.id,
     mode |-> args.mode % 256,
     samplerate |-> args.samplerate,
     bits |-> args.bits,
     channelformat |-> args.channelformat,
     commformat |-> args.commformat,
     dmacount |-> ToInt16(args.dmacount),
     dmalen |-> ToInt16(args.dmacount),
     useapll |-> args.useapll,
     fixedmclk |-> args.fixedmclk,
     sck |-> args.sck,
     ws |-> args.ws,
     sdout |-> self.sdout,
     sdin |-> args.sdin]

\* self after the assignments of lines 178-191; sdout is never assigned
\* (line 190) and keeps what self held
StoreConfig(self, args) ==
    [id |-> args.id,
     mode |-> args.mode % 256,
     samplerate |-> args.samplerate,
     bits |-> args.bits,
     channelformat |-> args.channelformat,
     commformat |-> args.commformat,
     dmacount |-> ToInt16(args.dmacount),
     dmalen |-> ToInt16(args.dmalen),
     useapll |-> args.useapll,
     fixedmclk |-> args.fixedmclk,
     sck |-> args.sck,
     ws |-> args.ws,
     sdout |-> self.sdout,
     sdin |-> args.sdin]

\* i2s_config, filled from self
DriverConfig(self) ==
    [mode |-> self.mode,
     sample_rate |-> self.samplerate,
     bits_per_sample |-> self.bits,
     channel_format |-> self.channelformat,
     communication_format |-> self.commformat,
     dma_buf_count |-> self.dmacount,
     dma_buf_len |-> self.dmalen,
     use_apll |-> self.useapll,
     fixed_mclk |-> self.fixedmclk]

\* the result of a helper run: self, the claim table, the drivers, the
\* exception raised (exc = NoError: none) and the driver calls made
Outcome(self, ps, inst, exc, msg, calls) ==
    [self |-> self, ps |-> ps, inst |-> inst, exc |-> exc, msg |-> msg,
     calls |-> calls]

\* mutant: the pins are assigned after a failed install too, the error of
\* the install being raised afterwards
InstallAndSetPin_PinAfterFailure(self, ps, inst, R) ==
    LET InstallCall(r) ==
            [fn |-> "i2s_driver_install", port |-> self.id,
             cfg |-> DriverConfig(self), ret |-> r]
        SetPinCall(r) ==
            [fn |-> "i2s_set_pin", port |-> self.id, ret |-> r]
        AfterInstall(r1) ==
            LET inst1 == i2s_driver_install(inst, self.id, r1)
            IN  IF r1 = ESP_ERR_INVALID_ARG
                THEN {Outcome(self, ps, inst1, "OSError",
                        "I2S driver install:  Parameter error",
                        <<InstallCall(r1), SetPinCall(r2)>>)
                       : r2 \in R.set_pin}
                ELSE IF r1 = ESP_ERR_NO_MEM
                THEN {Outcome(self, ps, inst1, "OSError",
                        "I2S driver install:  Out of memory",
                        <<InstallCall(r1), SetPinCall(r2)>>)
                       : r2 \in R.set_pin}
                ELSE {   IF r2 = ESP_ERR_INVALID_ARG
                         THEN Outcome(self, ps, inst1, "OSError",
                                "I2S set pin:  Parameter error",
                                <<InstallCall(r1), SetPinCall(r2)>>)
                         ELSE IF r2 = ESP_FAIL
                         THEN Outcome(self, ps, inst1, "OSError",
                                "I2S set pin:  IO error",
                                <<InstallCall(r1), SetPinCall(r2)>>)
                         ELSE Outcome(self, ps, inst1, NoError, NoError,
                                <<InstallCall(r1), SetPinCall(r2)>>)
                       : r2 \in R.set_pin }
    IN  UNION { AfterInstall(r1) : r1 \in R.install }

\* mutant: every status other than ESP_OK raises
InstallAndSetPin_AnyErrorRaises(self, ps, inst, R) ==
    LET InstallCall(r) ==
            [fn |-> "i2s_driver_install", port |-> self.id,
             cfg |-> DriverConfig(self), ret |-> r]
        SetPinCall(r) ==
            [fn |-> "i2s_set_pin", port |-> self.id, ret |-> r]
        AfterInstall(r1) ==
            LET inst1 == i2s_driver_install(inst, self.id, r1)
            IN  IF r1 = ESP_ERR_INVALID_ARG
                THEN {Outcome(self, ps, inst1, "OSError",
                        "I2S driver install:  Parameter error",
                        <<InstallCall(r1)>>)}
                ELSE IF r1 # ESP_OK
                THEN {Outcome(self, ps, inst1, "OSError",
                        "I2S driver install:  Out of memory",
                        <<InstallCall(r1)>>)}
                ELSE {   IF r2 = ESP_ERR_INVALID_ARG
                         THEN Outcome(self, ps, inst1, "OSError",
                                "I2S set pin:  Parameter error",
                                <<InstallCall(r1), SetPinCall(r2)>>)
                         ELSE IF r2 # ESP_OK
                         THEN Outcome(self, ps, inst1, "OSError",
                                "I2S set pin:  IO error",
                                <<InstallCall(r1), SetPinCall(r2)>>)
                         ELSE Outcome(self, ps, inst1, NoError, NoError,
                                <<InstallCall(r1), SetPinCall(r2)>>)
                       : r2 \in R.set_pin }
    IN  UNION { AfterInstall(r1) : r1 \in R.install }

\* lines 193-229: install the driver, then assign the pins; one outcome for
\* every status in R the two calls can return
InstallAndSetPin(self, ps, inst, R) ==
    LET InstallCall(r) ==
            [fn |-> "i2s_driver_install", port |-> self.id,
             cfg |-> DriverConfig(self), ret |-> r]
        SetPinCall(r) ==
            [fn |-> "i2s_set_pin", port |-> self.id, ret |-> r]
        AfterInstall(r1) ==
            LET inst1 == i2s_driver_install(inst, self.id, r1)
            IN  IF r1 = ESP_ERR_INVALID_ARG
                THEN {Outcome(self, ps, inst1, "OSError",
                        "I2S driver install:  Parameter error",
                        <<InstallCall(r1)>>)}
                ELSE IF r1 = ESP_ERR_NO_MEM
                THEN {Outcome(self, ps, inst1, "OSError",
                        "I2S driver install:  Out of memory",
                        <<InstallCall(r1)>>)}
                ELSE {   IF r2 = ESP_ERR_INVALID_ARG
                         THEN Outcome(self, ps, inst1, "OSError",
                                "I2S set pin:  Parameter error",
                                <<InstallCall(r1), SetPinCall(r2)>>)
                         ELSE IF r2 = ESP_FAIL
                         THEN Outcome(self, ps, inst1, "OSError",
                                "I2S set pin:  IO error",
                                <<InstallCall(r1), SetPinCall(r2)>>)
                         ELSE Outcome(self, ps, inst1, NoError, NoError,
                                <<InstallCall(r1), SetPinCall(r2)>>)
                       : r2 \in R.set_pin }
    IN  UNION { AfterInstall(r1) : r1 \in R.install }

\* mutant: the port is acquired right after the id check, before the other
\* argument checks
helper_ClaimFirst(self, kw, ps, inst, R) ==
    LET args == mp_arg_parse_all(kw)
        msg == ValidateArgs(args)
    IN  IF msg = "I2S ID is not valid"
        THEN {Outcome(self, ps, inst, ValidateExc(msg), msg, <<>>)}
        ELSE LET acq == machine_i2s_acquire_port(ps, args.id)
             IN  IF msg # NoError
                 THEN {Outcome(self, acq.ps, inst, ValidateExc(msg), msg,
                         <<>>)}
                 ELSE IF acq.ok = FALSE
                 THEN {Outcome(self, acq.ps, inst, "ValueError",
                         "I2S id is already in use", <<>>)}
                 ELSE InstallAndSetPin(StoreConfig(self, args), acq.ps, inst,
                                       R)

\* mutant: the result of the acquire is tested after the driver install
helper_LateInUse(self, kw, ps, inst, R) ==
    LET args == mp_arg_parse_all(kw)
        msg == ValidateArgs(args)
    IN  IF msg # NoError
        THEN {Outcome(self, ps, inst, ValidateExc(msg), msg, <<>>)}
        ELSE LET acq == machine_i2s_acquire_port(ps, args.id)
             IN  IF acq.ok = FALSE
                 THEN {Outcome(self, acq.ps,
                         i2s_driver_install(inst, args.id, r), "ValueError",
                         "I2S id is already in use", <<>>)
                       : r \in R.install}
                 ELSE InstallAndSetPin(StoreConfig(self, args), acq.ps, inst,
                                       R)

\* an access to machine_i2s_port_state[port], by acquire or release
TableCall(fn, port) == [fn |-> fn, port |-> port]
IsTableCall(c) ==
    c.fn \in {"machine_i2s_acquire_port", "machine_i2s_release_port"}
IsDriverCall(c) == ~IsTableCall(c)

\* the acquire at line 174: its results; an index outside the table is an
\* access outside the array, which can read either state and leaves the
\* table as it is
AcquireAt(ps, port) ==
    IF port \in DOMAIN ps
    THEN {machine_i2s_acquire_port(ps, port)}
    ELSE {[ok |-> b, ps |-> ps] : b \in BOOLEAN}

\* mutant: the id is stored before the arguments are checked
helper_StoreIdEarly(self, kw, ps, inst, R) ==
    LET args == mp_arg_parse_all(kw)
        msg == ValidateArgs(args)
        self1 == [self EXCEPT !.id = args.id]
        AcqCall == TableCall("machine_i2s_acquire_port", args.id)
        After(acq) ==
            IF acq.ok = FALSE
            THEN {Outcome(self1, acq.ps, inst, "ValueError",
                    "I2S id is already in use", <<AcqCall>>)}
            ELSE {[o EXCEPT !.calls = <<AcqCall>> \o @] :
                    o \in InstallAndSetPin(StoreConfig(self1, args), acq.ps,
                                           inst, R)}
    IN  IF msg # NoError
        THEN {Outcome(self1, ps, inst, ValidateExc(msg), msg, <<>>)}
        ELSE UNION {After(acq) : acq \in AcquireAt(ps, args.id)}

\* mutant: a failed driver call gives the port back before the error is
\* raised
helper_Rollback(self, kw, ps, inst, R) ==
    LET args == mp_arg_parse_all(kw)
        msg == ValidateArgs(args)
        AcqCall == TableCall("machine_i2s_acquire_port", args.id)
        Undo(o) ==
            IF o.exc = "OSError"
            THEN [o EXCEPT !.ps = machine_i2s_release_port(@, args.id)]
            ELSE o
        After(acq) ==
            IF acq.ok = FALSE
            THEN {Outcome(self, acq.ps, inst, "ValueError",
                    "I2S id is already in use", <<AcqCall>>)}
            ELSE {[Undo(o) EXCEPT !.calls = <<AcqCall>> \o @] :
                    o \in InstallAndSetPin(StoreConfig(self, args), acq.ps,
                                           inst, R)}
    IN  IF msg # NoError
        THEN {Outcome(self, ps, inst, ValidateExc(msg), msg, <<>>)}
        ELSE UNION {After(acq) : acq \in AcquireAt(ps, args.id)}

\* machine_i2s_init_helper(self, kw): the outcomes of the call from the
\* claim table ps and the driver state inst, the driver returning statuses
\* of R; the calls of an outcome start with the access to the claim table
machine_i2s_init_helper(self, kw, ps, inst, R) ==
    LET args == mp_arg_parse_all(kw)
        msg == ValidateArgs(args)
        AcqCall == TableCall("machine_i2s_acquire_port", args.id)
        After(acq) ==
            IF acq.ok = FALSE
            THEN {Outcome(self, acq.ps, inst, "ValueError",
                    "I2S id is already in use", <<AcqCall>>)}
            ELSE {[o EXCEPT !.calls = <<AcqCall>> \o @] :
                    o \in InstallAndSetPin(StoreConfig(self, args), acq.ps,
                                           inst, R)}
    IN  IF msg # NoError
        THEN {Outcome(self, ps, inst, ValidateExc(msg), msg, <<>>)}
        ELSE UNION {After(acq) : acq \in AcquireAt(ps, args.id)}

(***************************************************************************)
(* The calls of the script: the keyword arguments it passes.               *)
(***************************************************************************)
\* a call with every required argument valid and every optional one omitted
BaseKw(id) ==
    [id |-> id, mode |-> MODE_MASTER_RX, samplerate |-> 16000,
     bits |-> I2S_BITS_PER_SAMPLE_16BIT,
     channelformat |-> I2S_CHANNEL_FMT_ONLY_LEFT,
     commformat |-> COMM_I2S_MSB, sck |-> 14, ws |-> 15, sdin |-> 32]

\* kw with the argument n passed as v
With(kw, n, v) ==
    [x \in DOMAIN kw \cup {n} |-> IF x = n THEN v ELSE kw[x]]

\* the ids a script passes: the two ports and values that name none
KwIds == {-1, I2S_NUM_0, I2S_NUM_1, I2S_NUM_MAX}

\* integer arguments passed one at a time on top of the base call: values
\* that fail a check, and values that are out of range as mp_int_t but in
\* range once converted to int16_t
IntVariants ==
    {<<"mode", I2S_MODE_MASTER>>, <<"bits", 12>>,
     <<"channelformat", 5>>, <<"commformat", I2S_COMM_FORMAT_I2S>>,
     <<"dmacount", 1>>, <<"dmacount", 129>>, <<"dmacount", 65538>>,
     <<"dmalen", 7>>, <<"dmalen", 1025>>, <<"dmalen", 65544>>,
     <<"sck", 99>>}

\* the calls of the argument specification: the base call on every id, each
\* variant on top of the base call of port 0, and a call that passes the two
\* clock options
KwArgs ==
    { BaseKw(id) : id \in KwIds }
    \cup { With(BaseKw(I2S_NUM_0), v[1], v[2]) : v \in IntVariants }
    \cup { With(With(BaseKw(I2S_NUM_0), "useapll", TRUE),
                "fixedmclk", 12000000) }

\* the calls of the lifecycle specification: the base call on every id and
\* one call that fails an argument check
LifeKw ==
    { BaseKw(id) : id \in KwIds }
    \cup { With(BaseKw(I2S_NUM_0), "bits", 12) }

(***************************************************************************)
(* The entry points.                                                       *)
(***************************************************************************)
\* the object m_new_obj returns: no field is set yet, each holds what the
\* memory held (mem); id and sdout are the fields that can be read before
\* the helper has assigned them
NewObj(mem) == [id |-> mem, sdout |-> mem]

\* what the memory of a new object holds: one content in the specifications
\* that never read an unassigned field, several in the one that does
MemZero == {0}
MemAny == {0, 25}

UninstallCall(port) == [fn |-> "i2s_driver_uninstall", port |-> port]

\* an object is Configured from a construction or an init that returned
\* until the next deinit or failed init on it
Configured(h) == life[h] \in {"Constructed", "Reinitialised"}

\* the record of a call: the entry point, the object it ran on (0: none,
\* or the object was not kept), its arguments, the exception it raised, the
\* driver calls it made (calls), its accesses to the claim table (table) and
\* the state it started from
CallRecord(op, obj, kw, exc, msg, calls) ==
    [op |-> op, obj |-> obj, kw |-> kw, exc |-> exc, msg |-> msg,
     calls |-> SelectSeq(calls, IsDriverCall),
     table |-> {calls[i] : i \in {j \in DOMAIN calls : IsTableCall(calls[j])}},
     pre_ps |-> machine_i2s_port_state,
     pre_inst |-> installed]

Init ==
    /\ machine_i2s_port_state = [p \in Ports |-> MACHINE_I2S_PORT_NOT_USED]
    /\ installed = [p \in Ports |-> FALSE]
    /\ objs = <<>>
    /\ life = <<>>
    /\ freed = [p \in Ports |-> FALSE]
    /\ reading = <<>>
    /\ last = [op |-> "none", obj |-> 0, kw |-> <<>>, exc |-> NoError,
               msg |-> NoError, calls |-> <<>>, table |-> {},
               pre_ps |-> [p \in Ports |-> MACHINE_I2S_PORT_NOT_USED],
               pre_inst |-> [p \in Ports |-> FALSE]]

\* machine_i2s_make_new: the object is returned when the helper returns;
\* keep: the script keeps the returned object
machine_i2s_make_new(mem, kw, keep, R) ==
    \E o \in machine_i2s_init_helper(NewObj(mem), kw,
                                     machine_i2s_port_state, installed, R) :
        /\ machine_i2s_port_state' = o.ps
        /\ installed' = o.inst
        /\ IF o.exc = NoError /\ keep
           THEN /\ objs' = Append(objs, o.self)
                /\ life' = Append(life, "Constructed")
           ELSE UNCHANGED <<objs, life>>
        /\ UNCHANGED reading
        /\ freed' = [p \in Ports |-> freed[p] /\ p # kw.id]
        /\ last' = CallRecord("make_new",
                        IF o.exc = NoError /\ keep THEN Len(objs) + 1 ELSE 0,
                        kw, o.exc, o.msg, o.calls)

\* mutant: init releases the port and leaves the driver installed
init_ReleaseOnly(h, kw, R) ==
    LET self == objs[h]
        ps1 == machine_i2s_release_port(machine_i2s_port_state, self.id)
        inst1 == installed
    IN  \E o \in machine_i2s_init_helper(self, kw, ps1, inst1, R) :
        /\ machine_i2s_port_state' = o.ps
        /\ installed' = o.inst
        /\ objs' = [objs EXCEPT ![h] = o.self]
        /\ life' = [life EXCEPT ![h] =
                        IF o.exc = NoError THEN "Reinitialised"
                        ELSE IF o.exc = "OSError" THEN "Failed"
                        ELSE "Released"]
        /\ UNCHANGED reading
        /\ freed' = [p \in Ports |->
                        freed[p] /\ p # kw.id /\ p # self.id]
        /\ last' = CallRecord("init", h, kw, o.exc, o.msg,
                        <<TableCall("machine_i2s_release_port", self.id),
                          UninstallCall(self.id)>> \o o.calls)

\* mutant: init runs the helper on the state it finds, without release and
\* uninstall
init_NoTeardown(h, kw, R) ==
    LET self == objs[h]
        ps1 == machine_i2s_port_state
        inst1 == installed
    IN  \E o \in machine_i2s_init_helper(self, kw, ps1, inst1, R) :
        /\ machine_i2s_port_state' = o.ps
        /\ installed' = o.inst
        /\ objs' = [objs EXCEPT ![h] = o.self]
        /\ life' = [life EXCEPT ![h] =
                        IF o.exc = NoError THEN "Reinitialised"
                        ELSE IF o.exc = "OSError" THEN "Failed"
                        ELSE "Released"]
        /\ UNCHANGED reading
        /\ freed' = [p \in Ports |->
                        freed[p] /\ p # kw.id /\ p # self.id]
        /\ last' = CallRecord("init", h, kw, o.exc, o.msg,
                        <<TableCall("machine_i2s_release_port", self.id),
                          UninstallCall(self.id)>> \o o.calls)

\* machine_i2s_init: release and uninstall, then the helper
machine_i2s_init(h, kw, R) ==
    LET self == objs[h]
        ps1 == machine_i2s_release_port(machine_i2s_port_state, self.id)
        inst1 == i2s_driver_uninstall(installed, self.id)
    IN  \E o \in machine_i2s_init_helper(self, kw, ps1, inst1, R) :
        /\ machine_i2s_port_state' = o.ps
        /\ installed' = o.inst
        /\ objs' = [objs EXCEPT ![h] = o.self]
        /\ life' = [life EXCEPT ![h] =
                        IF o.exc = NoError THEN "Reinitialised"
                        ELSE IF o.exc = "OSError" THEN "Failed"
                        ELSE "Released"]
        /\ UNCHANGED reading
        /\ freed' = [p \in Ports |->
                        freed[p] /\ p # kw.id /\ p # self.id]
        /\ last' = CallRecord("init", h, kw, o.exc, o.msg,
                        <<TableCall("machine_i2s_release_port", self.id),
                          UninstallCall(self.id)>> \o o.calls)

\* mutant: deinit releases the port and leaves the driver installed
deinit_NoUninstall(h) ==
    LET self == objs[h]
    IN  /\ machine_i2s_port_state' =
                machine_i2s_release_port(machine_i2s_port_state, self.id)
        /\ UNCHANGED installed
        /\ life' = [life EXCEPT ![h] = "Released"]
        /\ UNCHANGED objs
        /\ UNCHANGED reading
        /\ freed' = [freed EXCEPT ![self.id] = Configured(h)]
        /\ last' = CallRecord("deinit", h, <<>>, NoError, NoError,
                        <<TableCall("machine_i2s_release_port", self.id),
                          UninstallCall(self.id)>>)

\* machine_i2s_deinit
machine_i2s_deinit(h) ==
    LET self == objs[h]
    IN  /\ machine_i2s_port_state' =
                machine_i2s_release_port(machine_i2s_port_state, self.id)
        /\ installed' = i2s_driver_uninstall(installed, self.id)
        /\ life' = [life EXCEPT ![h] = "Released"]
        /\ UNCHANGED objs
        /\ UNCHANGED reading
        /\ freed' = [freed EXCEPT ![self.id] = Configured(h)]
        /\ last' = CallRecord("deinit", h, <<>>, NoError, NoError,
                        <<TableCall("machine_i2s_release_port", self.id),
                          UninstallCall(self.id)>>)

\* machine_i2s_readinto up to its call of i2s_read (lines 271-295): writable:
\* the buffer argument is a writable buffer. When a check fails the call
\* ends with its exception; otherwise the task waits inside i2s_read, on the
\* port self->id holds at the call, while other tasks run
machine_i2s_readinto(h, writable) ==
    LET self == objs[h]
    IN  /\ UNCHANGED <<machine_i2s_port_state, installed, objs, life, freed>>
        /\ IF self.mode # MODE_MASTER_RX
           THEN /\ last' = CallRecord("readinto", h, <<>>, "ValueError",
                                "Communication Mode must be Master/Rx", <<>>)
                /\ UNCHANGED reading
           ELSE IF ~writable
           THEN /\ last' = CallRecord("readinto", h, <<>>, "TypeError",
                                "buffer", <<>>)
                /\ UNCHANGED reading
           ELSE /\ Len(reading) < MaxReads
                /\ reading' = Append(reading,
                        [obj |-> h, port |-> self.id, life |-> life[h],
                         pre_ps |-> machine_i2s_port_state,
                         pre_inst |-> installed])
                /\ UNCHANGED last

\* the rest of machine_i2s_readinto (lines 295-302): i2s_read returns ret to
\* the i-th waiting call, which raises or returns
i2s_read_return(i, ret) ==
    LET r == reading[i]
        ReadCall == [fn |-> "i2s_read", port |-> r.port, ret |-> ret]
        rec == IF ret = ESP_ERR_INVALID_ARG
               THEN CallRecord("readinto", r.obj, <<>>, "OSError",
                        "I2S read:  Parameter error", <<ReadCall>>)
               ELSE CallRecord("readinto", r.obj, <<>>, NoError, NoError,
                        <<ReadCall>>)
    IN  /\ UNCHANGED <<machine_i2s_port_state, installed, objs, life, freed>>
        /\ reading' = [j \in 1 .. (Len(reading) - 1) |->
                            IF j < i THEN reading[j] ELSE reading[j + 1]]
        /\ last' = [rec EXCEPT !.pre_ps = r.pre_ps,
                                !.pre_inst = r.pre_inst]

Handles == 1 .. Len(objs)

ReadRets == {ESP_OK, ESP_ERR_INVALID_ARG}

\* the lifecycle specification: the calls of LifeKw; the script keeps the
\* first MaxObjs objects it constructs and drops the later ones unused
Next ==
    \/ \E mem \in MemZero, kw \in LifeKw :
            machine_i2s_make_new(mem, kw, Len(objs) < MaxObjs, FewRets)
    \/ \E h \in Handles, kw \in LifeKw : machine_i2s_init(h, kw, FewRets)
    \/ \E h \in Handles : machine_i2s_deinit(h)

Spec == Init /\ [][Next]_vars

\* the argument specification: the calls of KwArgs on construction and
\* init; the script keeps the first MaxArgObjs objects
NextArgs ==
    \/ \E mem \in MemZero, kw \in KwArgs :
            machine_i2s_make_new(mem, kw, Len(objs) < MaxArgObjs, FewRets)
    \/ \E h \in Handles, kw \in KwArgs : machine_i2s_init(h, kw, FewRets)
    \/ \E h \in Handles : machine_i2s_deinit(h)

SpecArgs == Init /\ [][NextArgs]_vars

\* an argument for each check that fails it
BadArg ==
    [id |-> I2S_NUM_MAX, mode |-> I2S_MODE_MASTER, bits |-> 12,
     channelformat |-> 5, commformat |-> I2S_COMM_FORMAT_I2S,
     dmacount |-> DMACOUNT_MIN - 1, dmalen |-> DMALEN_MAX + 1, sck |-> 99]

\* the calls of the order specification: for every set of at most MaxBad
\* checks, the call on port 0 that fails exactly these; and calls with a
\* dmacount that is in range as an int16 only, before failing arguments
OrderKw ==
    {[n \in DOMAIN BaseKw(I2S_NUM_0) \cup S |->
        IF n \in S THEN BadArg[n] ELSE BaseKw(I2S_NUM_0)[n]]
     : S \in {T \in SUBSET DOMAIN BadArg : Cardinality(T) <= MaxBad}}
    \cup {With(With(BaseKw(I2S_NUM_0), "dmacount", 65538), n, BadArg[n])
            : n \in {"dmalen", "sck"}}

\* the driver calls succeed
OkRets == [install |-> {ESP_OK}, set_pin |-> {ESP_OK}]

\* the order specification: the calls of OrderKw on construction and init,
\* the driver calls succeeding; the script keeps the first MaxArgObjs objects
NextOrder ==
    \/ \E mem \in MemZero, kw \in OrderKw :
            machine_i2s_make_new(mem, kw, Len(objs) < MaxArgObjs, OkRets)
    \/ \E h \in Handles, kw \in OrderKw : machine_i2s_init(h, kw, OkRets)
    \/ \E h \in Handles : machine_i2s_deinit(h)

SpecOrder == Init /\ [][NextOrder]_vars

\* a call on port 1 whose arguments all differ from those of BaseKw(0), and
\* which passes sdout
OtherKw ==
    [id |-> I2S_NUM_1, mode |-> MODE_MASTER_RX, samplerate |-> 44100,
     bits |-> I2S_BITS_PER_SAMPLE_32BIT,
     channelformat |-> I2S_CHANNEL_FMT_RIGHT_LEFT,
     commformat |-> COMM_I2S_LSB, dmacount |-> 8, dmalen |-> 128,
     useapll |-> TRUE, fixedmclk |-> 12000000,
     sck |-> 26, ws |-> 27, sdout |-> 25, sdin |-> 33]

\* the calls of the configuration specification: two valid calls that
\* differ in every argument, one whose dmacount is in range as an int16
\* only, and one that fails a check
CfgKw ==
    {BaseKw(I2S_NUM_0), OtherKw,
     With(BaseKw(I2S_NUM_0), "dmacount", 65538),
     With(OtherKw, "bits", 12)}

\* the configuration specification: the calls of CfgKw on construction and
\* init, a new object holding any content of MemAny; the script keeps the
\* first MaxArgObjs objects
NextConfig ==
    \/ \E mem \in MemAny, kw \in CfgKw :
            machine_i2s_make_new(mem, kw, Len(objs) < MaxArgObjs, FewRets)
    \/ \E h \in Handles, kw \in CfgKw : machine_i2s_init(h, kw, FewRets)
    \/ \E h \in Handles : machine_i2s_deinit(h)

SpecConfig == Init /\ [][NextConfig]_vars

\* the calls of the driver specification: valid arguments on each port
DrvKw == {BaseKw(I2S_NUM_0), BaseKw(I2S_NUM_1)}

\* the read specification: valid calls of construction and init with the
\* driver calls succeeding, deinit, and readinto calls that wait inside
\* i2s_read while the other entry points run; the script keeps the first
\* MaxArgObjs objects
NextRead ==
    \/ \E mem \in MemZero, kw \in DrvKw :
            machine_i2s_make_new(mem, kw, Len(objs) < MaxArgObjs, OkRets)
    \/ \E h \in Handles, kw \in DrvKw : machine_i2s_init(h, kw, OkRets)
    \/ \E h \in Handles : machine_i2s_deinit(h)
    \/ \E h \in Handles, writable \in BOOLEAN :
            machine_i2s_readinto(h, writable)
    \/ \E i \in DOMAIN reading, ret \in ReadRets : i2s_read_return(i, ret)

SpecRead == Init /\ [][NextRead]_vars

\* the driver specification: valid calls, the two driver calls returning
\* every status of DriverRets; the script keeps the first MaxArgObjs objects
NextDriver ==
    \/ \E mem \in MemZero, kw \in DrvKw :
            machine_i2s_make_new(mem, kw, Len(objs) < MaxArgObjs, AllRets)
    \/ \E h \in Handles, kw \in DrvKw : machine_i2s_init(h, kw, AllRets)
    \/ \E h \in Handles : machine_i2s_deinit(h)

SpecDriver == Init /\ [][NextDriver]_vars

TypeOK ==
    /\ machine_i2s_port_state \in
            [Ports -> {MACHINE_I2S_PORT_NOT_USED, MACHINE_I2S_PORT_USED}]
    /\ installed \in [Ports -> BOOLEAN]
    /\ Len(objs) = Len(life)

(***************************************************************************)
(* Properties.                                                             *)
(***************************************************************************)
InUseMsg == "I2S id is already in use"

\* the last call was a construction or an init
IsSetup == last.op \in {"make_new", "init"}

\* the arguments of the last call pass every argument check
LastArgsValid == ValidateArgs(mp_arg_parse_all(last.kw)) = NoError

\* the Configured objects whose stored id is p
LiveOn(p) == {h \in Handles : Configured(h) /\ objs[h].id = p}

\* C1: for each unit index at most one live instance (constructed or
\* re-initialised successfully and not torn down since by deinit or a failed
\* init) holds the claim on that index.
C1_AtMostOneLivePerUnit ==
    \A p \in Ports : Cardinality(LiveOn(p)) <= 1

\* C2: while an instance constructed with id i has had neither deinit nor
\* init called on it, every further construction with id i and valid
\* arguments fails with "I2S id is already in use" and the unit stays
\* claimed.
C2_SecondConstructionFails ==
    (/\ last.op = "make_new"
     /\ LastArgsValid
     /\ \E h \in Handles :
            /\ h # last.obj
            /\ life[h] = "Constructed"
            /\ objs[h].id = last.kw.id)
    => (/\ last.msg = InUseMsg
        /\ machine_i2s_port_state[last.kw.id] = MACHINE_I2S_PORT_USED)

\* C3: a readinto on an instance that has been released (by deinit, or by an
\* init whose validation or claim failed) is rejected and does not reach the
\* driver's blocking read: no call that waits inside i2s_read was made on an
\* instance that was Released at the call.
C3_ReadintoRejectedWhenReleased ==
    \A i \in DOMAIN reading : reading[i].life # "Released"

\* the messages of the value errors the helper raises
ValueErrorMsgs ==
    {"I2S ID is not valid", "Only Master Rx Mode is supported",
     "Bits per sample is not valid", "Channel Format is not valid",
     "Communication Format is not valid",
     "DMA Buffer Count is not valid.  Allowed range is [2, 128]",
     "DMA Buffer Length is not valid.  Allowed range is [8, 1024]",
     InUseMsg}

\* the last call was a construction or init that raised a value error
RaisedValueError ==
    IsSetup /\ last.exc = "ValueError" /\ last.msg \in ValueErrorMsgs

\* C4 as stated: when a construction or an init raises a value error, the
\* driver installation state of every unit is the same as before the call.
C4_ValueErrorChangesNoDriver ==
    RaisedValueError => installed = last.pre_inst

\* C4 as amended: a construction that raises a value error leaves the driver
\* installation state of every unit as it was; an init that raises one
\* leaves it as it was except that the driver of the unit stored in the
\* instance, which init uninstalls before the arguments are checked, is gone.
C4_ValueErrorDriverState ==
    /\ (last.op = "make_new" /\ RaisedValueError)
            => installed = last.pre_inst
    /\ (last.op = "init" /\ RaisedValueError)
            => installed =
                [last.pre_inst EXCEPT ![objs[last.obj].id] = FALSE]

\* an init on an instance whose driver was installed raised a value error
\* while the driver of the other unit was installed too
C4_Witness ==
    /\ last.op = "init"
    /\ RaisedValueError
    /\ \A p \in Ports : last.pre_inst[p]
    /\ \E p \in Ports : installed[p]

\* C5: a construction produces an instance iff validation and the unit claim
\* both succeed; a failed construction leaves the claim table and the driver
\* installation of every unit as they were.
C5_ConstructionAtomic ==
    last.op = "make_new" =>
        /\ (last.exc = NoError) <=>
                (/\ LastArgsValid
                 /\ last.pre_ps[last.kw.id] = MACHINE_I2S_PORT_NOT_USED)
        /\ last.exc # NoError =>
                (/\ machine_i2s_port_state = last.pre_ps
                 /\ installed = last.pre_inst)

\* the driver install calls among the driver calls of the last call
InstallCalls == {i \in DOMAIN last.calls : last.calls[i].fn = "i2s_driver_install"}

\* the last call passed a dmacount outside [2,128] or a dmalen outside
\* [8,1024]
DmaArgOutOfRange ==
    LET a == mp_arg_parse_all(last.kw)
    IN  \/ a.dmacount \notin DMACOUNT_MIN .. DMACOUNT_MAX
        \/ a.dmalen \notin DMALEN_MIN .. DMALEN_MAX

\* C6: a construction or init that passes a dmacount outside [2,128] or a
\* dmalen outside [8,1024] fails with a value error and nothing is passed to
\* the driver install call.
C6_DmaOutOfRangeRejected ==
    (IsSetup /\ DmaArgOutOfRange)
    => (last.exc = "ValueError" /\ InstallCalls = {})

\* the messages of the argument checks that precede the unit claim
ArgCheckMsgs == (ValueErrorMsgs \ {InUseMsg}) \cup {"pin"}

\* C7: a construction that fails on an argument check leaves the claim table
\* as it was, whatever it was.
C7_FailedCheckKeepsRegistry ==
    (last.op = "make_new" /\ last.msg \in ArgCheckMsgs)
    => machine_i2s_port_state = last.pre_ps

\* a construction failed on the last check before the claim, on a free unit,
\* while the other unit was claimed
C7_Witness ==
    /\ last.op = "make_new"
    /\ last.msg = "pin"
    /\ last.pre_ps[last.kw.id] = MACHINE_I2S_PORT_NOT_USED
    /\ \E p \in Ports : last.pre_ps[p] = MACHINE_I2S_PORT_USED

\* C8: once deinit has run on a Configured instance with id i and only calls
\* on the other unit id have followed, a construction with id i and valid
\* arguments does not fail with "I2S id is already in use": it takes the
\* claim.
C8_ReclaimAfterDeinit ==
    [][ (/\ last'.op = "make_new"
         /\ ValidateArgs(mp_arg_parse_all(last'.kw)) = NoError
         /\ freed[last'.kw.id])
        => (/\ last'.msg # InUseMsg
            /\ machine_i2s_port_state'[last'.kw.id] = MACHINE_I2S_PORT_USED)
      ]_vars

\* a construction returned an object on the id of an instance that is
\* released
C8_Witness ==
    /\ last.op = "make_new"
    /\ last.exc = NoError
    /\ \E h \in Handles :
            /\ h # last.obj
            /\ life[h] = "Released"
            /\ objs[h].id = last.kw.id

\* C9: a deinit that follows a deinit on the same instance does not raise,
\* finds the unit free, and leaves the claim table and the driver state as
\* the first deinit left them.
C9_DeinitIdempotent ==
    [][ (/\ last.op = "deinit"
         /\ last'.op = "deinit"
         /\ last'.obj = last.obj)
        => (/\ last'.exc = NoError
            /\ machine_i2s_port_state[objs[last.obj].id]
                    = MACHINE_I2S_PORT_NOT_USED
            /\ machine_i2s_port_state' = machine_i2s_port_state
            /\ installed' = installed)
      ]_vars

\* a deinit ran on a released instance whose unit was free and without
\* driver
C9_Witness ==
    /\ last.op = "deinit"
    /\ life[last.obj] = "Released"
    /\ last.pre_ps[objs[last.obj].id] = MACHINE_I2S_PORT_NOT_USED
    /\ ~last.pre_inst[objs[last.obj].id]
    /\ machine_i2s_port_state = last.pre_ps

\* C10: a construction that omits dmacount, dmalen, useapll and fixedmclk,
\* with valid required arguments on a free unit, passes 16, 64, false and 0
\* to the driver install call and stores them in the instance.
C10_DefaultsApplied ==
    (/\ last.op = "make_new"
     /\ DOMAIN last.kw \cap OptionalArgs = {}
     /\ LastArgsValid
     /\ last.pre_ps[last.kw.id] = MACHINE_I2S_PORT_NOT_USED)
    => /\ InstallCalls = {1}
       /\ last.calls[1].cfg.dma_buf_count = 16
       /\ last.calls[1].cfg.dma_buf_len = 64
       /\ last.calls[1].cfg.use_apll = FALSE
       /\ last.calls[1].cfg.fixed_mclk = 0
       /\ last.obj # 0 =>
            /\ objs[last.obj].dmacount = 16
            /\ objs[last.obj].dmalen = 64
            /\ objs[last.obj].useapll = FALSE
            /\ objs[last.obj].fixedmclk = 0

\* a construction without the optional arguments returned an object
C10_Witness ==
    /\ last.op = "make_new"
    /\ DOMAIN last.kw \cap OptionalArgs = {}
    /\ last.exc = NoError
    /\ last.obj # 0

\* the statuses after which the code raises OSError (lines 213, 216, 223,
\* 226)
InstallFailRets == {ESP_ERR_INVALID_ARG, ESP_ERR_NO_MEM}
SetPinFailRets == {ESP_ERR_INVALID_ARG, ESP_FAIL}

\* the last call made the driver call fn and it returned a status of rets
LastDriverRet(fn, rets) ==
    \E i \in DOMAIN last.calls :
        last.calls[i].fn = fn /\ last.calls[i].ret \in rets

\* the last call failed on an enumerated failure code of a driver call
LastDriverFailed ==
    \/ LastDriverRet("i2s_driver_install", InstallFailRets)
    \/ LastDriverRet("i2s_set_pin", SetPinFailRets)

\* C11: a construction or init that claimed its unit and then got an
\* enumerated failure code from the driver install or the pin assignment
\* raises OSError and leaves the unit claimed; a construction with valid
\* arguments on the same id that follows it fails with "already in use"
C11_DriverFailureLeaksClaim ==
    [][ /\ (IsSetup' /\ LastDriverFailed')
            => /\ last'.exc = "OSError"
               /\ machine_i2s_port_state'[last'.kw.id] = MACHINE_I2S_PORT_USED
        /\ (/\ IsSetup /\ LastDriverFailed
            /\ last'.op = "make_new" /\ last'.kw.id = last.kw.id
            /\ LastArgsValid')
            => /\ last'.exc = "ValueError"
               /\ last'.msg = InUseMsg ]_vars

\* a construction fails with "already in use" on a unit that no object
\* holds, the driver of which is not installed: the claim left by a failed
\* driver call
C11_Witness ==
    /\ last.op = "make_new" /\ last.msg = InUseMsg
    /\ objs = <<>>
    /\ ~installed[last.kw.id]
    /\ machine_i2s_port_state[last.kw.id] = MACHINE_I2S_PORT_USED

\* the last call is an init that failed before the helper stored anything:
\* on an argument check, the pin resolution or the claim
InitFailedEarly ==
    last.op = "init" /\ last.exc \in {"ValueError", "PinError"}

\* C12: init releases the claim of the id the instance stores and
\* uninstalls that unit's driver first; when the new arguments or the new
\* claim then fail, that unit is free and without driver and the instance
\* is not Configured
C12_InitTearsDownFirst ==
    /\ last.op = "init"
        => /\ Len(last.calls) >= 1
           /\ last.calls[1].fn = "i2s_driver_uninstall"
           /\ TableCall("machine_i2s_release_port", last.calls[1].port)
                \in last.table
    /\ InitFailedEarly
        => LET old == objs[last.obj].id
           IN  /\ last.calls = <<UninstallCall(old)>>
               /\ machine_i2s_port_state[old] = MACHINE_I2S_PORT_NOT_USED
               /\ ~installed[old]
               /\ ~Configured(last.obj)

\* an init of an instance that held its unit with the driver installed
\* failed on its new arguments
C12_Witness ==
    /\ InitFailedEarly
    /\ last.msg # InUseMsg
    /\ last.pre_ps[objs[last.obj].id] = MACHINE_I2S_PORT_USED
    /\ last.pre_inst[objs[last.obj].id]

\* the last call attempted the pin assignment after the driver install
SetPinAfterInstall ==
    \E i \in InstallCalls : \E j \in DOMAIN last.calls :
        j > i /\ last.calls[j].fn = "i2s_set_pin"

\* C13 as stated: every construction or init that reaches the driver
\* install attempts the pin assignment afterwards, whatever status the
\* install returned
C13_SetPinAlwaysAttempted ==
    (IsSetup /\ InstallCalls # {}) => SetPinAfterInstall

\* C13: a construction or init that reaches the driver install attempts the
\* pin assignment afterwards exactly when the install returned a status
\* other than ESP_ERR_INVALID_ARG and ESP_ERR_NO_MEM; on those two the call
\* raises OSError and the pins are not assigned
C13_SetPinUnlessInstallRaised ==
    (IsSetup /\ InstallCalls # {})
        => /\ SetPinAfterInstall
                <=> ~LastDriverRet("i2s_driver_install", InstallFailRets)
           /\ LastDriverRet("i2s_driver_install", InstallFailRets)
                => last.exc = "OSError"

\* the install returned an error status that is not enumerated and the pins
\* were assigned after it
C13_Witness ==
    /\ IsSetup
    /\ LastDriverRet("i2s_driver_install", {ESP_FAIL})
    /\ SetPinAfterInstall

\* C16: a construction or init that reaches the driver calls raises OSError
\* exactly when the install returned ESP_ERR_INVALID_ARG or ESP_ERR_NO_MEM
\* or the pin assignment returned ESP_ERR_INVALID_ARG or ESP_FAIL; after
\* every other status, other error codes included, the call completes
\* without error, the unit claimed and the instance Configured
C16_OnlyEnumeratedCodesRaise ==
    (IsSetup /\ InstallCalls # {})
        => /\ last.exc = "OSError" <=> LastDriverFailed
           /\ ~LastDriverFailed
                => /\ last.exc = NoError
                   /\ machine_i2s_port_state[last.kw.id]
                        = MACHINE_I2S_PORT_USED
                   /\ last.obj # 0
                        => /\ Configured(last.obj)
                           /\ objs[last.obj].id = last.kw.id

\* a call completed although the install returned ESP_FAIL and the pin
\* assignment ESP_ERR_NO_MEM, and returned a Configured instance
C16_Witness ==
    /\ IsSetup
    /\ LastDriverRet("i2s_driver_install", {ESP_FAIL})
    /\ LastDriverRet("i2s_set_pin", {ESP_ERR_NO_MEM})
    /\ last.exc = NoError
    /\ last.obj # 0
    /\ Configured(last.obj)

\* the checks in the order the claim gives them, each with the message of
\* its error ("pin": the error of the pin resolution)
CheckOrder ==
    <<"id", "mode", "bits", "channelformat", "commformat", "dmacount",
      "dmalen", "pin">>
CheckMsg ==
    [id |-> "I2S ID is not valid",
     mode |-> "Only Master Rx Mode is supported",
     bits |-> "Bits per sample is not valid",
     channelformat |-> "Channel Format is not valid",
     commformat |-> "Communication Format is not valid",
     dmacount |-> "DMA Buffer Count is not valid.  Allowed range is [2, 128]",
     dmalen |-> "DMA Buffer Length is not valid.  Allowed range is [8, 1024]",
     pin |-> "pin"]

\* the arguments a fail the check c, each check taken on its own; the DMA
\* checks are those of the code, on the int16 the argument is converted to
CheckFails(c, a) ==
    CASE c = "id" -> a.id \notin {0, 1}
      [] c = "mode" -> a.mode # 9
      [] c = "bits" -> a.bits \notin {8, 16, 24, 32}
      [] c = "channelformat" -> a.channelformat \notin 0 .. 4
      [] c = "commformat" -> a.commformat \notin {3, 5}
      [] c = "dmacount" -> ToInt16(a.dmacount) \notin 2 .. 128
      [] c = "dmalen" -> ToInt16(a.dmalen) \notin 8 .. 1024
      [] c = "pin" -> \E n \in {"sck", "ws", "sdin"} : a[n] \notin 0 .. 39

\* the positions in CheckOrder of the checks the last call's arguments fail
LastFailing ==
    {i \in DOMAIN CheckOrder :
        CheckFails(CheckOrder[i], mp_arg_parse_all(last.kw))}

\* the last call tried to claim a unit
ClaimAttempted ==
    \E c \in last.table : c.fn = "machine_i2s_acquire_port"

\* C14: a construction or init reports the error of the earliest check, in
\* the order id, mode, bits, channel format, comm format, DMA count, DMA
\* length, pin resolution, that its arguments fail, and tries to claim the
\* unit exactly when they fail none
C14_EarliestCheckReported ==
    IsSetup
        => /\ LastFailing # {}
                => /\ last.msg =
                        CheckMsg[CheckOrder[
                            CHOOSE i \in LastFailing :
                                \A j \in LastFailing : i <= j]]
                   /\ ~ClaimAttempted
           /\ LastFailing = {} => ClaimAttempted

\* a call whose arguments fail three checks, the mode check the earliest,
\* reported the mode error
C14_Witness ==
    /\ IsSetup
    /\ Cardinality(LastFailing) >= 3
    /\ LastFailing \cap {1, 2} = {2}
    /\ last.msg = CheckMsg["mode"]

\* the configuration fields the helper assigns (lines 178-191)
AssignedFields ==
    {"id", "mode", "samplerate", "bits", "channelformat", "commformat",
     "dmacount", "dmalen", "useapll", "fixedmclk", "sck", "ws", "sdin"}

\* the configuration fields the arguments kw give a value to: sdout when it
\* is passed
ArgFields(kw) ==
    AssignedFields \cup (DOMAIN kw \cap {"sdout"})

\* the value v of argument f as the field of the instance holds it
AsField(f, v) ==
    CASE f \in {"dmacount", "dmalen"} -> ToInt16(v)
      [] f = "mode" -> v % 256
      [] OTHER -> v

\* the instance the step's construction returned or its init ran on, and
\* the arguments of the call
StepObj == objs'[last'.obj]
StepArgs == mp_arg_parse_all(last'.kw)

\* C15 as stated: after a construction the fields of the instance are all
\* the values of the arguments; after an init they are all the values held
\* before the call or all the values of the new arguments
C15_ConfigAllOldOrAllNew ==
    [][ /\ (last'.op = "make_new" /\ last'.obj # 0)
            => \A f \in ArgFields(last'.kw) : StepObj[f] = StepArgs[f]
        /\ last'.op = "init"
            => \/ StepObj = objs[last'.obj]
               \/ \A f \in ArgFields(last'.kw) : StepObj[f] = StepArgs[f]
      ]_vars

\* C15: after a construction the fields of the instance other than sdout
\* are all the values of the arguments, converted to the fields' types;
\* after an init they are all the values held before the call or all the
\* converted values of the new arguments; sdout is never assigned
C15_AssignedFieldsAllOldOrAllNew ==
    [][ /\ (last'.op = "make_new" /\ last'.obj # 0)
            => \A f \in AssignedFields :
                    StepObj[f] = AsField(f, StepArgs[f])
        /\ last'.op = "init"
            => /\ \/ StepObj = objs[last'.obj]
                  \/ \A f \in AssignedFields :
                        StepObj[f] = AsField(f, StepArgs[f])
               /\ StepObj.sdout = objs[last'.obj].sdout
      ]_vars

\* an init moved an instance from port 0 to the arguments of OtherKw: every
\* assigned field holds the new value, sdout does not
C15_Witness ==
    /\ last.op = "init" /\ last.kw = OtherKw
    /\ last.pre_ps[I2S_NUM_0] = MACHINE_I2S_PORT_USED
    /\ last.pre_ps[I2S_NUM_1] = MACHINE_I2S_PORT_NOT_USED
    /\ \A f \in AssignedFields : objs[last.obj][f] = OtherKw[f]
    /\ objs[last.obj].sdout # OtherKw.sdout

\* C17: a unit that is free in the claim table has no driver installed, and
\* a construction or init issues the driver install only for a unit whose
\* driver is not installed: it was not installed before the call, or the
\* call is the init that uninstalled it first
C17_FreeUnitHasNoDriver ==
    /\ \A p \in Ports :
            machine_i2s_port_state[p] = MACHINE_I2S_PORT_NOT_USED
                => ~installed[p]
    /\ (IsSetup /\ InstallCalls # {})
        => \/ ~last.pre_inst[last.kw.id]
           \/ /\ last.op = "init"
              /\ last.calls[1] = UninstallCall(last.kw.id)

\* an init installed the driver on the unit the instance held, the driver
\* of which was installed before the call, and the other unit is free
C17_Witness ==
    /\ last.op = "init" /\ InstallCalls # {}
    /\ last.pre_inst[last.kw.id]
    /\ installed[last.kw.id]
    /\ \E p \in Ports :
            machine_i2s_port_state[p] = MACHINE_I2S_PORT_NOT_USED

\* C18: the claim table has the entries 0 and 1; every acquire and every
\* release of a call accesses it at one of them, and the id every instance
\* stores, through which init and deinit release, is one of them
C18_TableIndexInRange ==
    /\ DOMAIN machine_i2s_port_state = 0 .. (I2S_NUM_MAX - 1)
    /\ \A c \in last.table : c.port \in {0, 1}
    /\ \A h \in Handles : objs[h].id \in {0, 1}

\* an init was called with an id that names no unit: it released through
\* the stored id and made no other access to the table
C18_Witness ==
    /\ last.op = "init"
    /\ last.kw.id \notin {0, 1}
    /\ last.table =
            {TableCall("machine_i2s_release_port", objs[last.obj].id)}
    /\ last.msg = "I2S ID is not valid"

\* the last call is an init with valid arguments whose id is the id the
\* instance stored before the call (the one init released and uninstalled)
InitOnSameId ==
    /\ last.op = "init"
    /\ LastArgsValid
    /\ last.calls[1] = UninstallCall(last.kw.id)

\* C19: an init with valid arguments on the id the instance already stores
\* never fails with "I2S id is already in use": it claims the unit,
\* whatever the claim table held before the call
C19_InitSameIdNeverInUse ==
    InitOnSameId
        => /\ last.msg # InUseMsg
           /\ last.exc # "ValueError"
           /\ TableCall("machine_i2s_acquire_port", last.kw.id) \in last.table
           /\ machine_i2s_port_state[last.kw.id] = MACHINE_I2S_PORT_USED

\* an init on the stored id succeeded on a unit that was claimed before the
\* call and that another Configured instance stores as well
C19_Witness ==
    /\ InitOnSameId
    /\ last.exc = NoError
    /\ last.pre_ps[last.kw.id] = MACHINE_I2S_PORT_USED
    /\ \E h \in Handles \ {last.obj} :
            Configured(h) /\ objs[h].id = last.kw.id

====
